---- MODULE Spec2Model ----
(***************************************************************************)
(* A model of apiFinder.py: the fetch / parse pipeline (DefaultRequests,   *)
(* DefaultParsed), the extension loader (load_custom), the per-target      *)
(* fan-out (process_target) and the driver (main).                         *)
(*                                                                         *)
(* Python strings are sequences of one-character strings, so that          *)
(* str.strip, the ordering used by sorted() and the recognition grammar    *)
(* are computed character by character.                                    *)
(***************************************************************************)
EXTENDS Integers, Sequences, FiniteSets, TLC

VARIABLES
    \* main() and process_target()
    args,       \* the parsed command line (argparse namespace)
    env,        \* the world: the target file's content and each URL's fetch outcome
    pc,         \* where main() is
    urls,       \* main: the list of targets
    classes,    \* main: <<parsed_cls, req_cls>> returned by load_custom
    ti,         \* main: the index in urls of the target being processed
    all_urls,   \* main: the accumulated result set
    found,      \* process_target: the per-target result set
    scripts,    \* process_target: full_js_urls
    fut,        \* process_target: the submitted futures, in submission order
    consumed,   \* process_target: the futures as_completed has yielded
    stdout,     \* the lines printed to standard output
    stderr,     \* the lines written to standard error
    outfile,    \* the lines appended to the -o file
    gets,       \* the number of Fetcher.get calls made so far
    loads,      \* the number of substitution sources load_custom tried to load
    ptlog,      \* the process_target calls that returned: target, result, merge order
    order,      \* process_target: the order in which futures were merged
    cleanlog,   \* the clean() calls of main: argument and returned list
    \* DefaultParsed.clean on its own
    paths,      \* the argument (a set of strings)
    cleaned,    \* the returned list
    recleaned,  \* clean applied to the elements of its own output
    \* DefaultParsed.extract_urls_from_js on its own
    js,         \* the script text
    matched,    \* the matches of RULE.finditer: start index and group(1)
    \* load_custom on its own
    lc_path,    \* the path argument
    lc_names,   \* the cls_names argument
    lc_res      \* what the call did: returned classes, printed lines, raised or not

standalone == <<paths, cleaned, recleaned, js, matched, lc_path, lc_names, lc_res>>
mainvars == <<args, env, pc, urls, classes, ti, all_urls, found, scripts, fut,
              consumed, stdout, stderr, outfile, gets, loads, ptlog, order, cleanlog>>
cleanvars == <<paths, cleaned, recleaned>>
scanvars == <<js, matched>>
loadvars == <<lc_path, lc_names, lc_res>>
vars == <<mainvars, cleanvars, scanvars, loadvars>>

\* Optional[str]: None, or a string.
Nothing == [some |-> FALSE, val |-> <<>>]
Some(v) == [some |-> TRUE, val |-> v]
\* Python truth of an Optional[str] / Optional[bytes]: None and "" are false.
Truthy(o) == o.some /\ o.val # <<>>

(***************************************************************************)
(* Strings                                                                 *)
(***************************************************************************)

\* The code point of the characters the model uses (ord(c)).
Code(c) ==
    CASE c = "\t" -> 9  [] c = " " -> 32 [] c = "%" -> 37 [] c = "'" -> 39
      [] c = "," -> 44  [] c = "-" -> 45 [] c = "." -> 46 [] c = "/" -> 47
      [] c = "?" -> 63  [] c = "[" -> 91 [] c = "a" -> 97 [] c = "b" -> 98
      [] c = "c" -> 99  [] c = "d" -> 100 [] c = "h" -> 104 [] c = "j" -> 106
      [] c = "p" -> 112 [] c = "q" -> 113 [] c = "s" -> 115 [] c = "x" -> 120
      [] c = "y" -> 121 [] c = "|" -> 124

\* str.isspace for one character.
IsSpace(c) == c \in {" ", "\t", "\n"}

RECURSIVE lstrip(_)
lstrip(s) ==
    IF s # <<>> /\ IsSpace(Head(s)) THEN lstrip(Tail(s)) ELSE s

RECURSIVE rstrip(_)
rstrip(s) ==
    IF s # <<>> /\ IsSpace(s[Len(s)]) THEN rstrip(SubSeq(s, 1, Len(s) - 1)) ELSE s

\* str.strip(): leading and trailing whitespace removed.
strip(s) == rstrip(lstrip(s))

\* a < b for Python strings: lexicographic by code point.
RECURSIVE StrLess(_, _)
StrLess(a, b) ==
    IF b = <<>> THEN FALSE
    ELSE IF a = <<>> THEN TRUE
    ELSE IF Code(Head(a)) # Code(Head(b)) THEN Code(Head(a)) < Code(Head(b))
    ELSE StrLess(Tail(a), Tail(b))

\* Every order in which a set may be iterated.
RECURSIVE Orderings(_)
Orderings(S) ==
    IF S = {} THEN {<<>>}
    ELSE UNION {{<<x>> \o o : o \in Orderings(S \ {x})} : x \in S}

\* sorted(): insertion of each element, in iteration order, into a sorted list.
RECURSIVE insertSorted(_, _)
insertSorted(x, l) ==
    IF l = <<>> THEN <<x>>
    ELSE IF StrLess(Head(l), x) THEN <<Head(l)>> \o insertSorted(x, Tail(l))
    ELSE <<x>> \o l

RECURSIVE sorted(_)
sorted(it) ==
    IF it = <<>> THEN <<>> ELSE insertSorted(Head(it), sorted(Tail(it)))

(***************************************************************************)
(* DefaultParsed.clean                                                     *)
(***************************************************************************)

\* {p.strip() for p in paths if p.strip()}
cleanSetNoFilter(ps) == {strip(p) : p \in ps}
cleanSet(ps) == {strip(p) : p \in {q \in ps : strip(q) # <<>>}}

\* The lists clean(paths) can return: one per iteration order of the set.
clean(ps) == {sorted(it) : it \in Orderings(cleanSet(ps))}

(***************************************************************************)
(* DefaultParsed.RULE and extract_urls_from_js                             *)
(***************************************************************************)

Lower == {"a","b","c","d","e","f","g","h","i","j","k","l","m",
          "n","o","p","q","r","s","t","u","v","w","x","y","z"}
Upper == {"A","B","C","D","E","F","G","H","I","J","K","L","M",
          "N","O","P","Q","R","S","T","U","V","W","X","Y","Z"}
Digit == {"0","1","2","3","4","5","6","7","8","9"}

\* (?:"|')
Quotes == {"\"", "'"}
\* [^"'><,;| *()(%%$^/\\\[\]] : what the character after the prefix cannot be
FirstDenyAsRest == {"\"", "'", ">", "<", ",", ";", "|", "(", ")"}
FirstDeny == {"\"", "'", ">", "<", ",", ";", "|", " ", "*", "(", ")",
              "%", "$", "^", "/", "\\", "[", "]"}
\* [^"'><,;|()] : what the remaining characters cannot be
RestDeny == {"\"", "'", ">", "<", ",", ";", "|", "(", ")"}
\* [a-zA-Z0-9_\-/]
WordSlash == Lower \cup Upper \cup Digit \cup {"_", "-", "/"}
\* [a-zA-Z0-9_\-]
WordName == Lower \cup Upper \cup Digit \cup {"_", "-"}
\* [a-zA-Z]
Letter == Lower \cup Upper
\* php|asp|aspx|jsp|json|action|html|js|txt|xml
Extensions == { <<"p","h","p">>, <<"a","s","p">>, <<"a","s","p","x">>,
                <<"j","s","p">>, <<"j","s","o","n">>,
                <<"a","c","t","i","o","n">>, <<"h","t","m","l">>,
                <<"j","s">>, <<"t","x","t">>, <<"x","m","l">> }

All(s, C) == \A i \in DOMAIN s : s[i] \in C
None_(s, C) == \A i \in DOMAIN s : s[i] \notin C
From(s, i) == SubSeq(s, i, Len(s))

\* The first index >= i of s holding a character of C, or Len(s) + 1.
RECURSIVE Find(_, _, _)
Find(s, i, C) ==
    IF i > Len(s) THEN Len(s) + 1
    ELSE IF s[i] \in C THEN i
    ELSE Find(s, i + 1, C)

\* (?:/|\.\./|\./) : the length of the prefix s starts with, or 0.
PrefixLen(s) ==
    IF Len(s) >= 1 /\ s[1] = "/" THEN 1
    ELSE IF Len(s) >= 3 /\ SubSeq(s, 1, 3) = <<".", ".", "/">> THEN 3
    ELSE IF Len(s) >= 2 /\ SubSeq(s, 1, 2) = <<".", "/">> THEN 2
    ELSE 0

\* Branch 1: prefix, one character outside FirstDeny, one or more outside RestDeny.
Branch1(s) ==
    LET k == PrefixLen(s)
        r == From(s, k + 1)
    IN  /\ k > 0
        /\ Len(r) >= 2
        /\ r[1] \notin FirstDeny
        /\ None_(Tail(r), RestDeny)

\* (?:[\?|/][^"|']{0,}|) and (?:\?[^"|']{0,}|)
TailOK(t, firsts) ==
    t = <<>> \/ (t[1] \in firsts /\ None_(Tail(t), {"\"", "|", "'"}))

\* The length of the longest prefix of s made of characters of C.
RECURSIVE Span(_, _)
Span(s, C) ==
    IF s # <<>> /\ Head(s) \in C THEN 1 + Span(Tail(s), C) ELSE 0

\* Branch 2: word/slash run holding an inner "/", ".", 1-4 letters or "action", tail.
Branch2(s) ==
    LET d == Find(s, 1, {"."})
        w == SubSeq(s, 1, d - 1)
        r == From(s, d + 1)
        n == Span(r, Letter)
    IN  /\ d <= Len(s)
        /\ Len(w) >= 3
        /\ All(w, WordSlash)
        /\ \E i \in 2..(Len(w) - 1) : w[i] = "/"
        /\ (n \in 1..4 \/ SubSeq(r, 1, n) = <<"a","c","t","i","o","n">>)
        /\ TailOK(From(r, n + 1), {"?", "|", "/"})

\* Branch 3: file name, ".", an allow-listed extension, optional "?" tail.
Branch3(s) ==
    LET d == Find(s, 1, {"."})
        w == SubSeq(s, 1, d - 1)
        r == From(s, d + 1)
        q == Find(r, 1, {"?"})
    IN  /\ d <= Len(s)
        /\ Len(w) >= 1
        /\ All(w, WordName)
        /\ SubSeq(r, 1, q - 1) \in Extensions
        /\ None_(From(r, q + 1), {"\"", "|", "'"})

\* group(1) matches the text between two quotes.
Matches(s) == Branch1(s) \/ Branch2(s) \/ Branch3(s)
\* The alternative that matched it: the first that can (group 2, 3 or 4 is set).
Branch(s) == IF Branch1(s) THEN 1 ELSE IF Branch2(s) THEN 2 ELSE 3

\* RULE.finditer(text) from index i: the non-overlapping matches, left to right. No
\* branch accepts a quote inside the literal, so a match that opens at a quote
\* closes at the next one.
RECURSIVE finditer(_, _)
finditer(text, i) ==
    IF i > Len(text) THEN <<>>
    ELSE IF text[i] \in Quotes
         THEN LET j == Find(text, i + 1, Quotes)
              IN  IF j <= Len(text) /\ Matches(SubSeq(text, i + 1, j - 1))
                  THEN <<[start |-> i, lit |-> SubSeq(text, i + 1, j - 1),
                          branch |-> Branch(SubSeq(text, i + 1, j - 1))]>>
                           \o finditer(text, j + 1)
                  ELSE finditer(text, i + 1)
         ELSE finditer(text, i + 1)

\* [m.group(1) for m in self.RULE.finditer(text)]
extract_urls_from_js(text) ==
    LET ms == finditer(text, 1) IN [k \in DOMAIN ms |-> ms[k].lit]

(***************************************************************************)
(* Printed lines                                                           *)
(***************************************************************************)

\* A diagnostic line (a coloured "[+]", "[!]", "[~]", "[=]" message or the header).
Diag(tag) == [kind |-> "diag", tag |-> tag, text |-> <<>>]
\* A line of the final list: one candidate.
UrlLine(u) == [kind |-> "url", tag |-> "", text |-> u]

(***************************************************************************)
(* load_custom                                                             *)
(***************************************************************************)

DefaultParsed == "DefaultParsed"
DefaultRequests == "DefaultRequests"
\* An attribute that is no class: it has no __name__.
NoNameObj == "object without __name__"

\* The substitution sources of the model's world.
ModPy == <<"m", ".", "p", "y">>     \* a file that loads
BadPy == <<"b", ".", "p", "y">>     \* a file whose execution raises
NoPy == <<"x", ".", "p", "y">>      \* no such file
ModName == <<"m">>                  \* an importable module
NoName == <<"x">>                   \* no such module

\* The attributes of the one module that loads: two classes and a non-class.
ModuleAttrs == (<<"P">> :> "P") @@ (<<"R">> :> "R") @@ (<<"N">> :> NoNameObj)

\* str.endswith
endswith(s, suf) ==
    Len(s) >= Len(suf) /\ SubSeq(s, Len(s) - Len(suf) + 1, Len(s)) = suf

\* Lines 153-159: the module at path, or the exception locating / executing it.
load_module(path) ==
    IF endswith(path, <<".", "p", "y">>)
    THEN [exc |-> path # ModPy, attrs |-> ModuleAttrs]
    ELSE [exc |-> path # ModName, attrs |-> ModuleAttrs]

\* getattr(module, name, default)
getattr(attrs, name, default) ==
    IF name \in DOMAIN attrs THEN attrs[name] ELSE default

\* Lines 161-165 and 166-170: one role. name is the requested symbol (an
\* Optional[str]); the result is the class, the line printed, and whether
\* cls.__name__ raised.
resolve_role(attrs, name, default, tag) ==
    IF Truthy(name)
    THEN LET cls == getattr(attrs, name.val, default)
         IN  IF cls = NoNameObj
             THEN [exc |-> TRUE, cls |-> default, out |-> <<>>]
             ELSE [exc |-> FALSE, cls |-> cls, out |-> <<Diag(tag)>>]
    ELSE [exc |-> FALSE, cls |-> default, out |-> <<>>]

\* Lines 153-171: the body of the try block.
load_custom_try(path, cls_names) ==
    LET m == load_module(path)
        p == resolve_role(m.attrs, cls_names[1], DefaultParsed, "use_parsed")
        r == resolve_role(m.attrs, cls_names[2], DefaultRequests, "use_request")
    IN  IF m.exc THEN [exc |-> TRUE, ret |-> <<DefaultParsed, DefaultRequests>>, out |-> <<>>]
        ELSE IF p.exc THEN [exc |-> TRUE, ret |-> <<DefaultParsed, DefaultRequests>>, out |-> <<>>]
        ELSE IF r.exc THEN [exc |-> TRUE, ret |-> <<DefaultParsed, DefaultRequests>>, out |-> p.out]
        ELSE [exc |-> FALSE, ret |-> <<p.cls, r.cls>>, out |-> p.out \o r.out]

\* The same without the except clause: the exception reaches the caller.
load_custom_uncaught(path, cls_names) ==
    LET t == load_custom_try(path.val, cls_names)
    IN  IF ~Truthy(path)
        THEN [raised |-> FALSE, loaded |-> FALSE,
              ret |-> <<DefaultParsed, DefaultRequests>>, out |-> <<>>]
        ELSE [raised |-> t.exc, loaded |-> TRUE, ret |-> t.ret, out |-> t.out]

\* load_custom(path, cls_names): path and both names are Optional[str].
load_custom(path, cls_names) ==
    LET t == load_custom_try(path.val, cls_names)
    IN  IF ~Truthy(path)
        THEN [raised |-> FALSE, loaded |-> FALSE,
              ret |-> <<DefaultParsed, DefaultRequests>>, out |-> <<>>]
        ELSE IF t.exc
        THEN [raised |-> FALSE, loaded |-> TRUE,
              ret |-> <<DefaultParsed, DefaultRequests>>,
              out |-> t.out \o <<Diag("load_failed")>>]
        ELSE [raised |-> FALSE, loaded |-> TRUE, ret |-> t.ret, out |-> t.out]

(***************************************************************************)
(* The web of the model: two pages and three scripts                       *)
(***************************************************************************)

\* "h:" stands for scheme and host.
Page1 == <<"h", ":", "/", "p">>
Page2 == <<"h", ":", "/", "d", "/", "q">>
ScriptX1 == <<"h", ":", "/", "x">>
ScriptX2 == <<"h", ":", "/", "d", "/", "x">>
ScriptY == <<"h", ":", "/", "y">>
Pages == {Page1, Page2}
URLs == {Page1, Page2, ScriptX1, ScriptX2, ScriptY}

\* A tag of a page: a script tag with a src, or any other tag.
ScriptTag(src) == [script |-> TRUE, has_src |-> TRUE, src |-> src]
InlineScript == [script |-> TRUE, has_src |-> FALSE, src |-> <<>>]

\* The markup served at a page URL.
Markup(url) ==
    IF url = Page1
    THEN <<ScriptTag(<<"x">>), InlineScript, ScriptTag(ScriptY)>>
    ELSE <<ScriptTag(<<".", "/", "x">>), ScriptTag(<<"/", "y">>)>>

\* The text served at a script URL.
ScriptText(url) ==
    IF url = ScriptX1
    THEN <<"'", "/", "a", "b", "'", " ", "'", "c", ".", "j", "s", "'">>
    ELSE IF url = ScriptX2
    THEN <<"\"", "/", "a", "b", " ", "\"", ",", "'", ".", "/", "c", "d", "'">>
    ELSE <<"'", "a", "/", "b", ".", "j", "s", "?", "q", "'", "x", "'", "/", "a", "b", "'">>

\* resp.content
Content(url) == IF url \in Pages THEN Markup(url) ELSE ScriptText(url)

(***************************************************************************)
(* DefaultRequests.get, DefaultParsed.extract_scripts, urljoin             *)
(***************************************************************************)

\* get(url): the payload (None on any failure), the line printed, and whether an
\* exception leaves the call.
get_uncaught(url, net) ==
    IF net[url] = "ok"
    THEN [exc |-> FALSE, some |-> TRUE, val |-> Content(url), line |-> Diag("fetch_ok")]
    ELSE [exc |-> TRUE, some |-> FALSE, val |-> <<>>, line |-> Diag("traceback")]

get(url, net) ==
    IF net[url] = "ok"
    THEN [exc |-> FALSE, some |-> TRUE, val |-> Content(url), line |-> Diag("fetch_ok")]
    ELSE [exc |-> FALSE, some |-> FALSE, val |-> <<>>, line |-> Diag("fetch_fail")]

\* [tag['src'] for tag in soup.find_all('script', src=True)]
RECURSIVE extract_scripts(_)
extract_scripts(html) ==
    IF html = <<>> THEN <<>>
    ELSE IF Head(html).script /\ Head(html).has_src
         THEN <<Head(html).src>> \o extract_scripts(Tail(html))
         ELSE extract_scripts(Tail(html))

\* The last index of s holding c, or 0.
RECURSIVE LastIndex(_, _)
LastIndex(s, c) ==
    IF s = <<>> THEN 0
    ELSE IF s[Len(s)] = c THEN Len(s)
    ELSE LastIndex(SubSeq(s, 1, Len(s) - 1), c)

\* urllib.parse.urljoin for the references of the model's pages: a reference with
\* a scheme is kept, one starting with "/" replaces the path, any other replaces
\* the last segment of the base's path (a leading "./" dropped).
urljoin(base, ref) ==
    LET root == SubSeq(base, 1, Find(base, 1, {":"}))
        dir == SubSeq(base, 1, LastIndex(base, "/"))
        rel == IF Len(ref) >= 2 /\ SubSeq(ref, 1, 2) = <<".", "/">> THEN From(ref, 3) ELSE ref
    IN  IF Find(ref, 1, {":"}) <= Len(ref) THEN ref
        ELSE IF ref # <<>> /\ ref[1] = "/" THEN root \o ref
        ELSE dir \o rel

(***************************************************************************)
(* main: arguments                                                         *)
(***************************************************************************)

\* -w/--workers default
DefaultWorkers == 10

\* Lines 213-216: the targets of the run.
RECURSIVE target_lines(_)
target_lines(lines) ==
    IF lines = <<>> THEN <<>>
    ELSE IF strip(Head(lines)) # <<>>
         THEN <<strip(Head(lines))>> \o target_lines(Tail(lines))
         ELSE target_lines(Tail(lines))

read_targets(a, e) ==
    (IF Truthy(a.file) THEN target_lines(e.file_lines) ELSE <<>>)
        \o (IF Truthy(a.url) THEN <<a.url.val>> ELSE <<>>)

\* Lines 208-218 without the check of line 210.
arg_error_no_cm_check(a, e) ==
    IF ~Truthy(a.url) /\ ~Truthy(a.file) THEN "no_target"
    ELSE IF Truthy(a.file) /\ ~e.file_exists THEN "FileNotFoundError"
    ELSE IF read_targets(a, e) = <<>> THEN "no_target"
    ELSE "ok"

\* Lines 208-218: what stops the run before load_custom, or "ok".
arg_error(a, e) ==
    IF ~Truthy(a.url) /\ ~Truthy(a.file) THEN "no_target"
    ELSE IF Truthy(a.custom_module) /\ ~(Truthy(a.parsed_name) \/ Truthy(a.request_name))
         THEN "cm_without_name"
    ELSE IF Truthy(a.file) /\ ~e.file_exists THEN "FileNotFoundError"
    ELSE IF read_targets(a, e) = <<>> THEN "no_target"
    ELSE "ok"

(***************************************************************************)
(* process_target: the pool                                                *)
(***************************************************************************)

\* os.cpu_count() of the machine the run is on.
CpuCount == 1

\* ThreadPoolExecutor(): max_workers defaults to min(32, os.cpu_count() + 4)
\* (Python 3.8 and later). args.workers is not passed to it.
PoolMaxWorkers == IF CpuCount + 4 < 32 THEN CpuCount + 4 ELSE 32

NoResult == [exc |-> FALSE, some |-> FALSE, val |-> <<>>, line |-> Diag("")]
Future(st, res) == [st |-> st, res |-> res]

Running == {j \in DOMAIN fut : fut[j].st = "running"}

\* as_completed(futures): the futures it can yield next.
as_completed(fs, done) == {j \in DOMAIN fs : fs[j].st = "finished" /\ j \notin done}

\* What a worker does to run its future: pool.submit(req_inst.get, js_url,
\* verify_ssl). It returns the payload and leaves the shared set alone.
worker_task_merging(url, net, shared) ==
    LET r == get(url, net)
    IN  [res |-> r,
         shared |-> IF Truthy(r)
                    THEN LET l == extract_urls_from_js(r.val)
                         IN  shared \cup {l[i] : i \in DOMAIN l}
                    ELSE shared]
worker_task(url, net, shared) == [res |-> get(url, net), shared |-> shared]

\* found.update(candidates)
update_replacing(set, list) == {list[i] : i \in DOMAIN list}
update(set, list) == set \cup {list[i] : i \in DOMAIN list}

\* all_urls |= result
accumulate_replacing(all, result) == result
accumulate(all, result) == all \cup result

(***************************************************************************)
(* main and process_target: the steps                                      *)
(***************************************************************************)

Target == urls[ti]

\* Lines 207-218.
CheckArgs ==
    /\ pc = "args"
    /\ LET err == arg_error(args, env)
       IN  /\ pc' = IF err = "ok" THEN "load"
                    ELSE IF err = "FileNotFoundError" THEN "crashed" ELSE "exit2"
           /\ urls' = IF err = "ok" THEN read_targets(args, env) ELSE urls
           /\ stderr' = IF err = "ok" THEN stderr
                        ELSE IF err = "FileNotFoundError" THEN Append(stderr, Diag("traceback"))
                        ELSE Append(stderr, Diag("usage_error"))
    /\ UNCHANGED <<args, env, classes, ti, all_urls, found, scripts, fut, consumed,
                   stdout, outfile, gets, loads, ptlog, order, cleanlog,
                   standalone>>

\* Lines 220-224. A run that substitutes a class goes on in code that is not the
\* program's: it ends the model at "custom".
LoadCustom ==
    /\ pc = "load"
    /\ LET r == load_custom(args.custom_module, <<args.parsed_name, args.request_name>>)
       IN  /\ classes' = r.ret
           /\ stdout' = stdout \o r.out
           /\ loads' = loads + (IF r.loaded THEN 1 ELSE 0)
           /\ pc' = IF r.raised THEN "crashed"
                    ELSE IF r.ret = <<DefaultParsed, DefaultRequests>> THEN "loop"
                    ELSE "custom"
           /\ stderr' = IF r.raised THEN Append(stderr, Diag("traceback")) ELSE stderr
    /\ ti' = 1
    /\ all_urls' = {}
    /\ UNCHANGED <<args, env, urls, found, scripts, fut, consumed, outfile, gets,
                   ptlog, order, cleanlog,
                   standalone>>

\* Lines 225-227 and 181-182: the next target; its page request goes out.
StartTarget ==
    /\ pc = "loop"
    /\ ti <= Len(urls)
    /\ stdout' = Append(stdout, Diag("start"))
    /\ found' = {}
    /\ scripts' = <<>>
    /\ fut' = <<>>
    /\ consumed' = {}
    /\ order' = <<>>
    /\ gets' = gets + 1
    /\ pc' = "page"
    /\ UNCHANGED <<args, env, urls, classes, ti, all_urls, stderr, outfile, loads,
                   ptlog, cleanlog,
                   standalone>>

\* process_target returns to line 228.
Returned(result) ==
    /\ ptlog' = Append(ptlog, [url |-> Target, result |-> result, order |-> order])
    /\ all_urls' = accumulate(all_urls, result)
    /\ ti' = ti + 1
    /\ pc' = "loop"

Crashed ==
    /\ pc' = "crashed"
    /\ stderr' = Append(stderr, Diag("traceback"))

\* Lines 182-186: the page request ends.
PageDone ==
    /\ pc = "page"
    /\ LET html == get(Target, env.net)
           refs == extract_scripts(html.val)
       IN  /\ stdout' = IF Truthy(html)
                        THEN stdout \o <<html.line, Diag("script_count")>>
                        ELSE IF html.exc THEN stdout ELSE Append(stdout, html.line)
           /\ IF html.exc
              THEN Crashed /\ UNCHANGED <<scripts, ptlog, all_urls, ti>>
              ELSE IF ~Truthy(html)
              THEN Returned(found) /\ UNCHANGED <<scripts, stderr>>
              ELSE /\ scripts' = [i \in DOMAIN refs |-> urljoin(Target, refs[i])]
                   /\ pc' = IF refs = <<>> THEN "collect" ELSE "submit"
                   /\ UNCHANGED <<ptlog, all_urls, ti, stderr>>
    /\ UNCHANGED <<args, env, urls, classes, found, fut, consumed, outfile, gets,
                   loads, order, cleanlog,
                   standalone>>

\* Line 188: one pool.submit.
Submit ==
    /\ pc = "submit"
    /\ fut' = Append(fut, Future("pending", NoResult))
    /\ pc' = IF Len(fut') = Len(scripts) THEN "collect" ELSE "submit"
    /\ UNCHANGED <<args, env, urls, classes, ti, all_urls, found, scripts, consumed,
                   stdout, stderr, outfile, gets, loads, ptlog, order, cleanlog,
                   standalone>>

\* A pool thread takes future j: its request goes out.
WorkerStart(j) ==
    /\ fut[j].st = "pending"
    /\ Cardinality(Running) < PoolMaxWorkers
    /\ fut' = [fut EXCEPT ![j].st = "running"]
    /\ gets' = gets + 1
    /\ UNCHANGED <<args, env, pc, urls, classes, ti, all_urls, found, scripts,
                   consumed, stdout, stderr, outfile, loads, ptlog, order, cleanlog,
                   standalone>>

\* The request of future j ends: the worker prints its line and stores the result.
WorkerFinish(j) ==
    /\ fut[j].st = "running"
    /\ LET w == worker_task(scripts[j], env.net, found)
       IN  /\ fut' = [fut EXCEPT ![j] = Future("finished", w.res)]
           /\ found' = w.shared
           /\ stdout' = IF w.res.exc THEN stdout ELSE Append(stdout, w.res.line)
    /\ UNCHANGED <<args, env, pc, urls, classes, ti, all_urls, scripts, consumed,
                   stderr, outfile, gets, loads, ptlog, order, cleanlog,
                   standalone>>

\* Lines 189-192: as_completed yields future j; the coordinator merges its result.
Collect(j) ==
    /\ pc = "collect"
    /\ j \in as_completed(fut, consumed)
    /\ LET r == fut[j].res
       IN  IF r.exc
           THEN Crashed /\ UNCHANGED <<found, consumed, order>>
           ELSE /\ found' = IF Truthy(r) THEN update(found, extract_urls_from_js(r.val))
                            ELSE found
                /\ consumed' = consumed \cup {j}
                /\ order' = Append(order, j)
                /\ UNCHANGED <<pc, stderr>>
    /\ UNCHANGED <<args, env, urls, classes, ti, all_urls, scripts, fut, stdout,
                   outfile, gets, loads, ptlog, cleanlog,
                   standalone>>

\* Lines 187 and 193: every future was yielded; leaving the with block waits for
\* the pool's threads, then process_target returns.
ReturnTarget ==
    /\ pc = "collect"
    /\ consumed = DOMAIN fut
    /\ \A j \in DOMAIN fut : fut[j].st = "finished"
    /\ Returned(found)
    /\ UNCHANGED <<args, env, urls, classes, found, scripts, fut, consumed, stdout,
                   stderr, outfile, gets, loads, order, cleanlog,
                   standalone>>

\* Lines 231-240: clean, the header, the list, the file.
Finish ==
    /\ pc = "loop"
    /\ ti > Len(urls)
    /\ \E list \in clean(all_urls) :
          LET lines == [i \in DOMAIN list |-> UrlLine(list[i])]
          IN  /\ cleanlog' = Append(cleanlog, [arg |-> all_urls, ret |-> list])
              /\ stdout' = stdout \o <<Diag("total"), Diag("header")>> \o lines
              /\ outfile' = IF Truthy(args.output) THEN outfile \o lines ELSE outfile
    /\ pc' = "done"
    /\ UNCHANGED <<args, env, urls, classes, ti, all_urls, found, scripts, fut,
                   consumed, stderr, gets, loads, ptlog, order,
                   standalone>>

(***************************************************************************)
(* The runs                                                                *)
(***************************************************************************)

\* The longest target file.
MaxLines == 2

SeqsUpTo(S, n) == UNION {[1..k -> S] : k \in 0..n}

\* The lines of a target file: blank, a target, a target with spaces around it.
Lines == {<<" ">>, Page1, <<" ">> \o Page2 \o <<" ">>}

Worlds == [URLs -> {"ok", "fail"}]
AllOK == [u \in URLs |-> "ok"]
AllFail == [u \in URLs |-> "fail"]

Args(u, f, cm, pn, rn, w, o) ==
    [url |-> u, file |-> f, custom_module |-> cm, parsed_name |-> pn,
     request_name |-> rn, workers |-> w, output |-> o]
Env(ex, ls, net) == [file_exists |-> ex, file_lines |-> ls, net |-> net]

TargetFile == Some(<<"f">>)
OutputFile == Some(<<"o">>)

\* Runs that vary the targets and the fetch outcomes.
TargetRuns ==
    {<<Args(u, Nothing, Nothing, Nothing, Nothing, DefaultWorkers, Nothing),
       Env(FALSE, <<>>, net)>> :
        u \in {Some(Page1), Some(Page2)}, net \in Worlds}
    \cup
    {<<Args(u, TargetFile, Nothing, Nothing, Nothing, DefaultWorkers, Nothing),
       Env(TRUE, ls, net)>> :
        u \in {Nothing, Some(Page1), Some(Page2)}, ls \in SeqsUpTo(Lines, MaxLines),
        net \in Worlds}

\* Runs that vary the options.
OptionRuns ==
    {<<Args(fu[1], fu[2], cm, pn, rn, w, o), Env(fu[3], fu[4], net)>> :
        fu \in {<<Nothing, Nothing, FALSE, <<>>>>,
                <<Some(Page1), Nothing, FALSE, <<>>>>,
                <<Nothing, TargetFile, FALSE, <<>>>>,
                <<Nothing, TargetFile, TRUE, <<>>>>,
                <<Nothing, TargetFile, TRUE, << <<" ">> >>>>,
                <<Nothing, TargetFile, TRUE, <<Page2>>>>},
        cm \in {Nothing, Some(ModPy), Some(NoPy)},
        pn \in {Nothing, Some(<<"P">>), Some(<<"Z">>)},
        rn \in {Nothing, Some(<<"Z">>)},
        w \in {1, DefaultWorkers},
        o \in {Nothing, OutputFile},
        net \in {AllOK, AllFail}}

Runs == TargetRuns \cup OptionRuns

MainZero ==
    /\ urls = <<>>
    /\ classes = <<DefaultParsed, DefaultRequests>>
    /\ ti = 0
    /\ all_urls = {}
    /\ found = {}
    /\ scripts = <<>>
    /\ fut = <<>>
    /\ consumed = {}
    /\ stdout = <<>>
    /\ stderr = <<>>
    /\ outfile = <<>>
    /\ gets = 0
    /\ loads = 0
    /\ ptlog = <<>>
    /\ order = <<>>
    /\ cleanlog = <<>>

MainStart == pc = "args" /\ MainZero

\* The variables of the stand-alone calls, when the run is main's.
CleanIdle == paths = {} /\ cleaned = <<>> /\ recleaned = <<>>
ScanIdle == js = <<>> /\ matched = <<>>
LoadIdle == lc_path = Nothing /\ lc_names = <<Nothing, Nothing>> /\ lc_res = <<>>
\* The variables of main, when the run is a stand-alone call.
MainIdle ==
    /\ args = Args(Nothing, Nothing, Nothing, Nothing, Nothing, DefaultWorkers, Nothing)
    /\ env = Env(FALSE, <<>>, AllOK)
    /\ pc = "idle"
    /\ MainZero

Init ==
    /\ \E run \in Runs : args = run[1] /\ env = run[2]
    /\ MainStart
    /\ CleanIdle /\ ScanIdle /\ LoadIdle

Next ==
    \/ CheckArgs
    \/ LoadCustom
    \/ StartTarget
    \/ PageDone
    \/ Submit
    \/ \E j \in DOMAIN fut : WorkerStart(j)
    \/ \E j \in DOMAIN fut : WorkerFinish(j)
    \/ \E j \in DOMAIN fut : Collect(j)
    \/ ReturnTarget
    \/ Finish

Spec == Init /\ [][Next]_vars

(***************************************************************************)
(* DefaultParsed.clean called on its own                                   *)
(***************************************************************************)

\* The longest string and the largest set given to clean.
MaxStrLen == 2
MaxPaths == 3

CleanChars == {" ", "a", "b"}
\* The subsets of S of at most n elements.
RECURSIVE SubsetsUpTo(_, _)
SubsetsUpTo(S, n) ==
    IF n = 0 THEN {{}}
    ELSE LET smaller == SubsetsUpTo(S, n - 1)
         IN  smaller \cup {ps \cup {x} : ps \in smaller, x \in S}

CleanInputs == SubsetsUpTo(SeqsUpTo(CleanChars, MaxStrLen), MaxPaths)

InitClean ==
    /\ paths \in CleanInputs
    /\ cleaned = <<>>
    /\ recleaned = <<>>
    /\ MainIdle
    /\ ScanIdle /\ LoadIdle

Elements(list) == {list[i] : i \in DOMAIN list}

\* cleaned = clean(paths)
CleanCall ==
    /\ pc = "idle"
    /\ \E list \in clean(paths) : cleaned' = list
    /\ pc' = "returned"
    /\ UNCHANGED <<args, env, urls, classes, ti, all_urls, found, scripts, fut,
                   consumed, stdout, stderr, outfile, gets, loads, ptlog, order,
                   cleanlog, paths, recleaned, scanvars, loadvars>>

\* recleaned = clean(set(cleaned))
CleanAgain ==
    /\ pc = "returned"
    /\ \E list \in clean(Elements(cleaned)) : recleaned' = list
    /\ pc' = "again"
    /\ UNCHANGED <<args, env, urls, classes, ti, all_urls, found, scripts, fut,
                   consumed, stdout, stderr, outfile, gets, loads, ptlog, order,
                   cleanlog, paths, cleaned, scanvars, loadvars>>

NextClean == CleanCall \/ CleanAgain

SpecClean == InitClean /\ [][NextClean]_vars

(***************************************************************************)
(* DefaultParsed.extract_urls_from_js called on its own                    *)
(***************************************************************************)

\* The longest script text.
MaxTextLen == 6

\* A quote, the prefix characters, a plain character, a character of the first
\* class only ("%") and a character of both classes (",").
ScanChars == {"'", "/", ".", "a", "%", ","}

InitScan ==
    /\ js \in SeqsUpTo(ScanChars, MaxTextLen)
    /\ matched = <<>>
    /\ MainIdle
    /\ CleanIdle /\ LoadIdle

\* The matches of RULE.finditer(js).
Scan ==
    /\ pc = "idle"
    /\ matched' = finditer(js, 1)
    /\ pc' = "returned"
    /\ UNCHANGED <<args, env, urls, classes, ti, all_urls, found, scripts, fut,
                   consumed, stdout, stderr, outfile, gets, loads, ptlog, order,
                   cleanlog, js, cleanvars, loadvars>>

NextScan == Scan

SpecScan == InitScan /\ [][NextScan]_vars

(***************************************************************************)
(* load_custom called on its own                                           *)
(***************************************************************************)

Sources == {Nothing, Some(<<>>), Some(ModPy), Some(BadPy), Some(NoPy),
            Some(ModName), Some(NoName)}
RoleNames == {Nothing, Some(<<>>), Some(<<"P">>), Some(<<"R">>), Some(<<"N">>),
              Some(<<"Z">>)}

InitLoad ==
    /\ lc_path \in Sources
    /\ lc_names \in RoleNames \X RoleNames
    /\ lc_res = <<>>
    /\ MainIdle
    /\ CleanIdle /\ ScanIdle

\* lc_res = <<what load_custom(lc_path, lc_names) did>>
Load ==
    /\ pc = "idle"
    /\ lc_res' = <<load_custom(lc_path, lc_names)>>
    /\ pc' = "returned"
    /\ UNCHANGED <<args, env, urls, classes, ti, all_urls, found, scripts, fut,
                   consumed, stdout, stderr, outfile, gets, loads, ptlog, order,
                   cleanlog, lc_path, lc_names, cleanvars, scanvars>>

NextLoad == Load

SpecLoad == InitLoad /\ [][NextLoad]_vars

(***************************************************************************)
(* What the claims speak of, stated apart from the operators above         *)
(***************************************************************************)

Whitespace == {" ", "\t", "\n"}

\* s without its leading and trailing whitespace.
Trimmed(s) ==
    LET keep == {i \in DOMAIN s : s[i] \notin Whitespace}
    IN  IF keep = {} THEN <<>>
        ELSE SubSeq(s, CHOOSE i \in keep : \A k \in keep : i <= k,
                       CHOOSE j \in keep : \A k \in keep : k <= j)

\* a comes strictly before b in lexicographic order.
LexLess(a, b) ==
    \E k \in 1..Len(b) :
        /\ k - 1 <= Len(a)
        /\ \A i \in 1..(k - 1) : a[i] = b[i]
        /\ (k = Len(a) + 1 \/ (k <= Len(a) /\ Code(a[k]) < Code(b[k])))

StrictlyAscending(list) ==
    \A i, j \in DOMAIN list : i < j => LexLess(list[i], list[j])

\* list is the normalization of the set ps.
NormalizationOf(list, ps) ==
    /\ Elements(list) = {Trimmed(p) : p \in ps} \ {<<>>}
    /\ StrictlyAscending(list)

\* The script URLs of each page, and the candidates each script holds.
ScriptURLTable ==
    [t \in Pages |->
        LET refs == extract_scripts(Markup(t))
        IN  [i \in DOMAIN refs |-> urljoin(t, refs[i])]]
CandidateTable ==
    [u \in URLs \ Pages |-> Elements(extract_urls_from_js(ScriptText(u)))]
ScriptURLs(t) == ScriptURLTable[t]
CandidatesOf(u) == CandidateTable[u]

\* The union of the candidates of the scripts of target t whose fetch succeeds;
\* empty when the page's own fetch fails.
ExpectedResult(t, net) ==
    IF net[t] = "fail" THEN {}
    ELSE UNION {CandidatesOf(ScriptURLs(t)[i]) :
                  i \in {k \in DOMAIN ScriptURLs(t) : net[ScriptURLs(t)[k]] = "ok"}}

Ended == pc \in {"done", "exit2", "crashed", "custom"}

\* The run can take a step: the coordinator is not waiting, or a script fetch is
\* in flight or can start, or a completed future is there to be yielded.
CanStep ==
    \/ pc \in {"args", "load", "loop", "page", "submit"}
    \/ /\ pc = "collect"
       /\ \/ \E j \in DOMAIN fut : fut[j].st = "running"
          \/ \E j \in DOMAIN fut :
                fut[j].st = "pending" /\ Cardinality(Running) < PoolMaxWorkers
          \/ \E j \in DOMAIN fut : fut[j].st = "finished" /\ j \notin consumed
          \/ consumed = DOMAIN fut

(***************************************************************************)
(* C1: a failed fetch contributes nothing and aborts nothing               *)
(***************************************************************************)

C2_InFlightWithinWorkers == Cardinality(Running) <= args.workers

(***************************************************************************)
(* C3: completion order                                                    *)
(***************************************************************************)

\* The candidates of the futures in js, as their stored results give them.
MergedOf(js_) ==
    UNION {Elements(extract_urls_from_js(fut[j].res.val)) :
             j \in {k \in js_ : Truthy(fut[k].res)}}

\* C3: while results are collected the set holds exactly the candidates of the
\* futures merged so far, whatever the order they completed in; and the set
\* process_target returned is the one the fetch outcomes fix, for every order
\* of completion recorded.
C3_OrderIndependent ==
    /\ pc = "collect" => found = MergedOf(consumed)
    /\ \A k \in DOMAIN ptlog :
          LET e == ptlog[k]
          IN  /\ e.result = ExpectedResult(e.url, env.net)
              /\ env.net[e.url] = "ok" =>
                    /\ Elements(e.order) = DOMAIN ScriptURLs(e.url)
                    /\ Len(e.order) = Len(ScriptURLs(e.url))

\* A target whose two scripts were both fetched and merged in the reverse of the
\* order they were submitted in.
C3_Witness ==
    \E k \in DOMAIN ptlog :
        /\ ptlog[k].order = <<2, 1>>
        /\ \A i \in 1..2 : env.net[ScriptURLs(ptlog[k].url)[i]] = "ok"
        /\ CandidatesOf(ScriptURLs(ptlog[k].url)[1]) \ CandidatesOf(ScriptURLs(ptlog[k].url)[2]) # {}
        /\ ptlog[k].result =
              CandidatesOf(ScriptURLs(ptlog[k].url)[1]) \cup CandidatesOf(ScriptURLs(ptlog[k].url)[2])

(***************************************************************************)
(* C4: load_custom falls back                                              *)
(***************************************************************************)

Res == lc_res[1]
Loadable == {ModPy, ModName}
Requested(n) == Truthy(n)
\* The requested symbol is not in the loaded unit.
Absent(n) == Requested(n) /\ n.val \notin DOMAIN ModuleAttrs
\* The requested symbol is there and is nothing the loader can name as a class.
Unusable(n) == Requested(n) /\ n.val \in DOMAIN ModuleAttrs /\ ModuleAttrs[n.val] = NoNameObj
FellBack ==
    /\ Res.ret = <<DefaultParsed, DefaultRequests>>
    /\ \E i \in DOMAIN Res.out : Res.out[i] = Diag("load_failed")

\* C4 as claimed: with a non-empty source, when the source cannot be located or
\* loaded or any requested symbol cannot be resolved in it, both roles get the
\* built-in classes, the failure is reported, and nothing is raised.
C4_FallsBackEntirely ==
    (/\ pc = "returned"
     /\ Truthy(lc_path)
     /\ \/ lc_path.val \notin Loadable
        \/ \E i \in 1..2 : Absent(lc_names[i]) \/ Unusable(lc_names[i]))
    => (FellBack /\ ~Res.raised)

\* C4 as amended: load_custom never raises; when the source cannot be located or
\* loaded, or a requested symbol is an object without a class name, both roles
\* get the built-in classes and the failure is reported; otherwise a requested
\* symbol that is absent from the loaded unit makes only its own role fall back
\* to the built-in class, the other role keeps what it resolved to, and no
\* failure is reported.
C4_FallsBackPerRole ==
    (pc = "returned" /\ Truthy(lc_path)) =>
        /\ ~Res.raised
        /\ Res.loaded
        /\ IF \/ lc_path.val \notin Loadable
              \/ \E i \in 1..2 : Unusable(lc_names[i])
           THEN FellBack
           ELSE /\ Res.ret[1] = IF Requested(lc_names[1]) /\ ~Absent(lc_names[1])
                                THEN ModuleAttrs[lc_names[1].val] ELSE DefaultParsed
                /\ Res.ret[2] = IF Requested(lc_names[2]) /\ ~Absent(lc_names[2])
                                THEN ModuleAttrs[lc_names[2].val] ELSE DefaultRequests
                /\ \A i \in DOMAIN Res.out : Res.out[i] # Diag("load_failed")

\* The source loads, the parser symbol is absent and the fetcher symbol is found:
\* the parser role fell back alone.
C4_Witness ==
    /\ pc = "returned"
    /\ lc_path = Some(ModPy)
    /\ lc_names = <<Some(<<"Z">>), Some(<<"R">>)>>
    /\ Res.ret = <<DefaultParsed, "R">>
    /\ ~Res.raised

(***************************************************************************)
(* C5: DefaultParsed.clean                                                 *)
(***************************************************************************)

\* C5: clean returns the strictly ascending list of the distinct non-empty
\* trimmed members of its argument, the same list for every order the set is
\* iterated in, and clean of that list's elements is that list again.
C5_CleanNormalizes ==
    /\ pc \in {"returned", "again"} =>
          /\ NormalizationOf(cleaned, paths)
          /\ \A i \in DOMAIN cleaned : cleaned[i] # <<>>
          /\ \A i, j \in DOMAIN cleaned : cleaned[i] = cleaned[j] => i = j
          /\ \A list \in clean(paths) : list = cleaned
    /\ pc = "again" => recleaned = cleaned

\* clean ran twice on a set holding two members equal after trimming and a
\* third that sorts before them: three members, two survivors.
C5_Witness ==
    /\ pc = "again"
    /\ \E p, q \in paths : p # q /\ Trimmed(p) = Trimmed(q) /\ Trimmed(p) # <<>>
    /\ Cardinality(paths) = 3
    /\ Len(cleaned) = 2
    /\ recleaned = cleaned

(***************************************************************************)
(* C6: one normalization, at the end, of the union                         *)
(***************************************************************************)

\* The candidates printed to standard output, in order.
RECURSIVE UrlsOf(_)
UrlsOf(lines) ==
    IF lines = <<>> THEN <<>>
    ELSE IF Head(lines).kind = "url" THEN <<Head(lines).text>> \o UrlsOf(Tail(lines))
    ELSE UrlsOf(Tail(lines))

\* C6: process_target is called once per target, in order; clean is called at
\* most once, only when every target's call has returned, on the union of the
\* sets they returned; the list emitted is that call's result, the
\* normalization of the union; a finished run has made that call.
C6_NormalizedOnceOverUnion ==
    /\ Len(ptlog) <= Len(urls)
    /\ \A k \in DOMAIN ptlog : ptlog[k].url = urls[k]
    /\ Len(cleanlog) <= 1
    /\ Len(cleanlog) = 0 => UrlsOf(stdout) = <<>>
    /\ Len(cleanlog) = 1 =>
          /\ Len(ptlog) = Len(urls)
          /\ cleanlog[1].arg = UNION {ptlog[k].result : k \in DOMAIN ptlog}
          /\ NormalizationOf(cleanlog[1].ret, cleanlog[1].arg)
          /\ UrlsOf(stdout) = cleanlog[1].ret
    /\ pc = "done" => Len(cleanlog) = 1

\* A finished run of two targets whose results overlap and differ, with fewer
\* lines emitted than candidates found.
C6_Witness ==
    /\ pc = "done"
    /\ Len(ptlog) = 2
    /\ ptlog[1].result \cap ptlog[2].result # {}
    /\ ptlog[1].result \ ptlog[2].result # {}
    /\ ptlog[2].result \ ptlog[1].result # {}
    /\ Len(cleanlog[1].ret) < Cardinality(ptlog[1].result \cup ptlog[2].result)

(***************************************************************************)
(* C7: diagnostics and the result list                                     *)
(***************************************************************************)

\* C7: standard output and the output file hold only lines of the final list.
C7_OnlyResultsOnStdout ==
    /\ \A i \in DOMAIN stdout : stdout[i].kind = "url"
    /\ \A i \in DOMAIN outfile : outfile[i].kind = "url"

(***************************************************************************)
(* C8: configuration errors come before any network activity              *)
(***************************************************************************)

\* The argument combinations the claim calls invalid.
InvalidArguments ==
    \/ ~Truthy(args.url) /\ ~Truthy(args.file)
    \/ /\ Truthy(args.file) /\ env.file_exists /\ ~Truthy(args.url)
       /\ \A i \in DOMAIN env.file_lines : Trimmed(env.file_lines[i]) = <<>>
    \/ Truthy(args.custom_module) /\ ~Truthy(args.parsed_name) /\ ~Truthy(args.request_name)

\* C8: a run with invalid arguments never fetches and never loads a substitution
\* source: it is at its start or has exited with the error reported; and a run
\* that exited with a configuration error made no fetch and no load.
C8_ErrorBeforeNetwork ==
    /\ InvalidArguments =>
          /\ gets = 0 /\ loads = 0
          /\ pc \in {"args", "exit2"}
    /\ pc = "exit2" =>
          /\ gets = 0 /\ loads = 0
          /\ stderr = <<Diag("usage_error")>>
          /\ stdout = <<>>

\* A run given a target and a substitution source but no role name has exited.
C8_Witness ==
    /\ pc = "exit2"
    /\ Truthy(args.url)
    /\ Truthy(args.custom_module)
    /\ env.net[args.url.val] = "ok"

(***************************************************************************)
(* C9: only the coordinator writes the result set                          *)
(***************************************************************************)

\* A step of the coordinator that merges one completed future.
MergeStep ==
    /\ pc = "collect"
    /\ fut' = fut
    /\ \E j \in DOMAIN fut :
          /\ fut[j].st = "finished"
          /\ j \notin consumed
          /\ consumed' = consumed \cup {j}

\* C9: every step that changes the result set is the coordinator's: it starts a
\* target with the empty set, or merges the result of a future that had
\* completed, and no worker's future changes in that step; and process_target
\* returns only when every script was dispatched, has completed and was merged.
C9_OnlyCoordinatorMerges ==
    [][/\ found' # found => ((pc = "loop" /\ found' = {}) \/ MergeStep)
       /\ Len(ptlog') > Len(ptlog) =>
             /\ Len(fut) = Len(scripts)
             /\ \A j \in DOMAIN fut : fut[j].st = "finished" /\ j \in consumed]_vars

\* The coordinator has merged one script's candidates while another script's
\* fetch is still in flight.
C9_Witness ==
    /\ pc = "collect"
    /\ consumed # {}
    /\ found # {}
    /\ Running # {}

(***************************************************************************)
(* C10: the first branch of the grammar                                    *)
(***************************************************************************)

\* The denylist of the claim.
Denylist == {" ", "<", ">", ",", ";", "|", "*", "(", ")", "%", "$", "^", "\\", "[", "]"}

\* What follows the /, ./ or ../ a literal starts with.
AfterPrefix(lit) ==
    IF lit[1] = "/" THEN From(lit, 2)
    ELSE IF Len(lit) >= 2 /\ lit[2] = "/" THEN From(lit, 3)
    ELSE From(lit, 4)

FirstBranchMatches == {i \in DOMAIN matched : matched[i].branch = 1}

\* C10 as claimed: a literal matched by the first branch has, after its prefix,
\* at least two characters and none of the denylist.
C10_NoDenylistedAfterPrefix ==
    \A i \in FirstBranchMatches :
        LET r == AfterPrefix(matched[i].lit)
        IN  Len(r) >= 2 /\ \A k \in DOMAIN r : r[k] \notin Denylist

\* C10 as amended: a literal matched by the first branch starts with /, ./ or
\* ../ and has, after that prefix, at least two characters: the first is none of
\* the denylist, and the others are none of the quotes, <, >, comma, semicolon,
\* | and the parentheses (space, *, %, $, ^, backslash, [ and ] may follow).
C10_DenylistOnFirstOnly ==
    \A i \in FirstBranchMatches :
        LET lit == matched[i].lit
            r == AfterPrefix(lit)
        IN  /\ \/ lit[1] = "/"
               \/ SubSeq(lit, 1, 2) = <<".", "/">>
               \/ SubSeq(lit, 1, 3) = <<".", ".", "/">>
            /\ Len(r) >= 2
            /\ r[1] \notin Denylist
            /\ \A k \in 2..Len(r) :
                  r[k] \notin {"\"", "'", "<", ">", ",", ";", "|", "(", ")"}

\* A literal matched by the first branch with a % after its second character.
C10_Witness ==
    \E i \in FirstBranchMatches :
        LET r == AfterPrefix(matched[i].lit)
        IN  \E k \in 2..Len(r) : r[k] = "%"

====
